---- MODULE Spec2Model ----
(***************************************************************************)
(* Identity cache (Users), roster cache (People), resolution protocol      *)
(* (User.search / User.update) and invite redemption (Users.update_invite) *)
(* of LdapWrapper.py, over an abstract LDAP directory.                     *)
(*                                                                         *)
(* Every public operation is one atomic action (the bot handles one        *)
(* message at a time).  The directory calls an operation makes are         *)
(* threaded through a context record c = [dir, inv, failAt, calls]:        *)
(* c.calls is the log of the calls issued so far, and the call whose       *)
(* number equals c.failAt raises a gateway-level ldap error instead of     *)
(* taking effect.  Exceptions are the exc field of what an operator        *)
(* returns ("none" when it returns normally).                              *)
(***************************************************************************)
EXTENDS Integers, Sequences, FiniteSets, TLC

VARIABLES
  users,               \* Users.__users : tgid -> User
  people,              \* People.__people : lower-cased uid -> Person
  people_last_update,  \* People.last_update
  dir,                 \* the person tree of the directory : dn -> entry
  inv,                 \* the invite tree of the directory : dn -> invite
  now,                 \* what time() returns
  envLeft,             \* directory changes by other clients still allowed
  last,                \* the last operation: its arguments and what it did
  resolvers,           \* the calls of User.search in progress in other threads
  handler              \* the CommandHandler of main: self.user and what the last update led to

vars == <<users, people, people_last_update, dir, inv, now, envLeft, last, resolvers, handler>>

----------------------------------------------------------------------------
(* Bounds of the model *)

MaxEnv == 1          \* directory changes made by other clients of the directory
MaxElapsed == 3601   \* seconds the clock may run
T0 == 10000          \* time() when the caches are constructed (any value > 3600)

(* Program constants *)
UserTTL == 3600      \* User.need_update
PeopleTTL == 3600    \* People.get

IDs == {1, 2}                        \* Telegram IDs of the senders
NoId == 0                            \* no telegramId attribute / tgid None
Nicks == {"alice"}                   \* Telegram nicknames
None == "None"                       \* Python None for an optional string
NickOpt == Nicks \cup {None}
Alice == "uid=alice,ou=People"
Bob == "uid=bob,ou=People"
DNs == {Alice, Bob}
Invite1 == "inviteCode=1,ou=Invites"
Invite2 == "inviteCode=2,ou=Invites"
InviteDNs == {Invite1, Invite2}
Codes == {"INV-7", "DUP"}
admin_groups == {"cn=Admin,ou=Groups"}   \* LDAP_ADMIN_GROUPS
Memberships == {{}, {"cn=Admin,ou=Groups"}, {"cn=Soviet,ou=Groups"}}

NoFail == 0 - 1                      \* failAt when no directory call fails
FailPoints == 0 .. 7                 \* 0: opening the session fails; k: the k-th call fails
Failed == 0 - 1                      \* result count logged for a call that raised

NoUser == [dn |-> None]
NoResolvers == <<>>                  \* no search is in progress in another thread
(* CommandHandler before any update: self.user = None, nothing ran *)
NoUpdate == [user |-> NoUser, authorized |-> "False", ran |-> "none", redeem |-> "none",
             exc |-> "none", got |-> "none", busted |-> FALSE]
NoAttrs == [a \in {} |-> None]

----------------------------------------------------------------------------
(* The directory gateway *)

Ctx(d, i, f) == [dir |-> d, inv |-> i, failAt |-> f, calls |-> <<>>]
Fails(c) == Len(c.calls) + 1 = c.failAt
Log(c, kind, n) == [c EXCEPT !.calls = Append(@, [kind |-> kind, n |-> n])]
Raise(c, exc) == [c |-> c, exc |-> exc, code |-> None, dn |-> None, attrs |-> NoAttrs]
TheOnly(S) == CHOOSE x \in S : TRUE

(* The attribute map a search or read returns for a person entry, with the  *)
(* attribute list 'uid','cn','givenname','sn','memberof','telegramnickname',*)
(* 'telegramid','nsaccountlock': only the attributes the entry has.         *)
Attributes(e) ==
  LET names == {"uid", "cn", "givenname", "sn"}
               \cup (IF e.memberof # {} THEN {"memberof"} ELSE {})
               \cup (IF e.nick # None THEN {"telegramnickname"} ELSE {})
               \cup (IF e.tgid # NoId THEN {"telegramid"} ELSE {})
               \cup (IF e.locked THEN {"nsaccountlock"} ELSE {})
  IN [a \in names |->
        CASE a = "uid" -> e.uid
          [] a = "cn" -> e.cn
          [] a = "givenname" -> e.givenname
          [] a = "sn" -> e.sn
          [] a = "memberof" -> e.memberof
          [] a = "telegramnickname" -> e.nick
          [] a = "telegramid" -> e.tgid
          [] a = "nsaccountlock" -> "TRUE"]

is_admin(groups, attributes) ==
  IF "memberof" \notin DOMAIN attributes THEN FALSE
  ELSE \E group \in attributes["memberof"] : group \in groups

(* mutant of get_stored_nickname: the attribute is never seen *)
get_stored_nickname_none(attributes) == None

get_stored_nickname(attributes) ==
  IF "telegramnickname" \in DOMAIN attributes THEN attributes["telegramnickname"]
  ELSE None

update_nickname(c, dn, new_nickname) ==
  IF Fails(c) THEN Raise(Log(c, "modify_nickname", Failed), "LDAPError")
  ELSE [Raise(Log([c EXCEPT !.dir[dn].nick = new_nickname], "modify_nickname", 1), "none")
          EXCEPT !.dn = dn]

(* mutant of update_id: the modify is issued but the ID is not stored *)
update_id_dropped(c, dn, new_id) ==
  IF Fails(c) THEN Raise(Log(c, "modify_id", Failed), "LDAPError")
  ELSE [Raise(Log(c, "modify_id", 1), "none") EXCEPT !.dn = dn]

update_id(c, dn, new_id) ==
  IF Fails(c) THEN Raise(Log(c, "modify_id", Failed), "LDAPError")
  ELSE [Raise(Log([c EXCEPT !.dir[dn].tgid = new_id], "modify_id", 1), "none")
          EXCEPT !.dn = dn]

(* mutant of get_invite_from_tgid: of several invites, one is picked *)
get_invite_from_tgid_first(c, tgid) ==
  LET result == {i \in InviteDNs : c.inv[i].tgid = tgid}
      c1 == Log(c, "search_invite_tgid", Cardinality(result))
  IN IF Fails(c) THEN Raise(Log(c, "search_invite_tgid", Failed), "LDAPError")
     ELSE IF Cardinality(result) = 0 THEN Raise(c1, "none")
     ELSE [Raise(c1, "none") EXCEPT !.code = c1.inv[TheOnly(result)].code]

get_invite_from_tgid(c, tgid) ==
  LET result == {i \in InviteDNs : c.inv[i].tgid = tgid}
      c1 == Log(c, "search_invite_tgid", Cardinality(result))
  IN IF Fails(c) THEN Raise(Log(c, "search_invite_tgid", Failed), "LDAPError")
     ELSE IF Cardinality(result) = 0 THEN Raise(c1, "none")
     ELSE IF Cardinality(result) > 1 THEN Raise(c1, "DuplicateEntryError")
     ELSE [Raise(c1, "none") EXCEPT !.code = c1.inv[TheOnly(result)].code]

(* __search_by_tgid, the branch len(result) == 0, given what the invite     *)
(* lookup returned                                                          *)
search_by_tgid_none(invite) ==
  IF invite.exc # "none" THEN invite
  ELSE IF invite.code = None THEN Raise(invite.c, "AccountNotFoundError")
  ELSE [Raise(invite.c, "AccountNotCompletedError") EXCEPT !.code = invite.code]

search_by_tgid(c, tgid) ==
  LET result == {dn \in DNs : c.dir[dn].present /\ c.dir[dn].tgid = tgid}
      c1 == Log(c, "search_tgid", Cardinality(result))
  IN IF Fails(c) THEN Raise(Log(c, "search_tgid", Failed), "LDAPError")
     ELSE IF Cardinality(result) = 0
       THEN search_by_tgid_none(get_invite_from_tgid(c1, tgid))
     ELSE IF Cardinality(result) > 1 THEN Raise(c1, "DuplicateEntryError")
     ELSE [c |-> c1, exc |-> "none", code |-> None, dn |-> TheOnly(result),
           attrs |-> Attributes(c1.dir[TheOnly(result)])]

(* mutant of search_by_nickname_again: a failed search by ID is followed by *)
(* another search by nickname                                              *)
search_by_nickname_again_retry(written, tgid) ==
  IF written.exc # "none" THEN written
  ELSE IF search_by_tgid(written.c, tgid).exc = "none" THEN search_by_tgid(written.c, tgid)
  ELSE Raise(Log(search_by_tgid(written.c, tgid).c, "search_nickname", 0),
             "AccountNotFoundError")

(* __search_by_nickname after __update_id: search again by ID *)
search_by_nickname_again(written, tgid) ==
  IF written.exc # "none" THEN written ELSE search_by_tgid(written.c, tgid)

(* mutant of search_by_nickname: entries that have an ID match too *)
search_by_nickname_any_id(c, tgnick, tgid) ==
  LET result == {dn \in DNs : c.dir[dn].present /\ c.dir[dn].nick = tgnick}
      c1 == Log(c, "search_nickname", Cardinality(result))
  IN IF Fails(c) THEN Raise(Log(c, "search_nickname", Failed), "LDAPError")
     ELSE IF Cardinality(result) = 0 THEN Raise(c1, "AccountNotFoundError")
     ELSE IF Cardinality(result) > 1 THEN Raise(c1, "DuplicateEntryError")
     ELSE search_by_nickname_again(update_id(c1, TheOnly(result), tgid), tgid)

search_by_nickname(c, tgnick, tgid) ==
  LET result == {dn \in DNs : /\ c.dir[dn].present
                              /\ c.dir[dn].tgid = NoId
                              /\ c.dir[dn].nick = tgnick}
      c1 == Log(c, "search_nickname", Cardinality(result))
  IN IF Fails(c) THEN Raise(Log(c, "search_nickname", Failed), "LDAPError")
     ELSE IF Cardinality(result) = 0 THEN Raise(c1, "AccountNotFoundError")
     ELSE IF Cardinality(result) > 1 THEN Raise(c1, "DuplicateEntryError")
     ELSE search_by_nickname_again(update_id(c1, TheOnly(result), tgid), tgid)

----------------------------------------------------------------------------
(* User *)

(* mutant of IsLocked: the lock marker is not looked at *)
IsLocked_never(attributes) == FALSE

(* 'nsaccountlock' in attributes *)
IsLocked(attributes) == "nsaccountlock" \in DOMAIN attributes

(* mutant of FallsBack: an incomplete registration falls back too *)
FallsBack_any(exc) == exc \in {"AccountNotFoundError", "AccountNotCompletedError"}

(* except AccountNotFoundError in User.search: what falls back to the nickname *)
FallsBack(exc) == exc = "AccountNotFoundError"

(* mutant of Evicting: a duplicate found by the refresh does not evict *)
Evicting_partial == {"AccountNotFoundError", "AccountLockedError"}

(* mutant of Evicting: a gateway failure of the refresh is retried by a search *)
Evicting_gateway ==
  {"AccountNotFoundError", "AccountLockedError", "DuplicateEntryError", "LDAPError"}

(* except (...) in Users.get: what evicts a stale user whose refresh failed *)
Evicting == {"AccountNotFoundError", "AccountLockedError", "DuplicateEntryError"}

(* mutant of need_update: stale one second late *)
need_update_late(user, t) == t - user.last_update > UserTTL + 1

(* mutant of need_update: stale one second early *)
need_update_early(user, t) == t - user.last_update >= UserTTL

need_update(user, t) == t - user.last_update > UserTTL

Thrown(c, exc, code, user) == [c |-> c, exc |-> exc, code |-> code, user |-> user]

(* User.search is the full resolution protocol; it is written here as the   *)
(* chain of its steps, each taking what the step before returned.           *)

(* mutant of search_find: the fallback is taken without a nickname too *)
search_find_always(byid, tgnick, tgid) ==
  IF FallsBack(byid.exc) THEN search_by_nickname(byid.c, tgnick, tgid) ELSE byid

(* try: __search_by_tgid / except AccountNotFoundError: __search_by_nickname *)
search_find(byid, tgnick, tgid) ==
  IF FallsBack(byid.exc) /\ tgnick # None
  THEN search_by_nickname(byid.c, tgnick, tgid)
  ELSE byid

(* mutant of search_reconcile: the stored nickname is left as it is *)
search_reconcile_skip(found, tgnick) == found

(* if nickname != tgnick: __update_nickname *)
search_reconcile(found, tgnick) ==
  IF get_stored_nickname(found.attrs) # tgnick
  THEN update_nickname(found.c, found.dn, tgnick)
  ELSE found

(* return User(...) *)
search_return(found, renamed, tgid, tgnick, groups, t) ==
  IF renamed.exc # "none" THEN Thrown(renamed.c, renamed.exc, None, NoUser)
  ELSE Thrown(renamed.c, "none", None,
              [dn |-> found.dn, tgid |-> tgid, uid |-> found.attrs["uid"],
               cn |-> found.attrs["cn"], givenname |-> found.attrs["givenname"],
               surname |-> found.attrs["sn"],
               isadmin |-> is_admin(groups, found.attrs),
               nickname |-> tgnick, last_update |-> t])

(* mutant of search_found: the nickname is reconciled before the lock check *)
search_found_reconcile_first(found, tgid, tgnick, groups, t) ==
  IF found.exc # "none" THEN Thrown(found.c, found.exc, found.code, NoUser)
  ELSE IF IsLocked(found.attrs)
    THEN Thrown(search_reconcile(found, tgnick).c, "AccountLockedError", None, NoUser)
  ELSE search_return(found, search_reconcile(found, tgnick), tgid, tgnick, groups, t)

(* the lock check, then the rest *)
search_found(found, tgid, tgnick, groups, t) ==
  IF found.exc # "none" THEN Thrown(found.c, found.exc, found.code, NoUser)
  ELSE IF IsLocked(found.attrs) THEN Thrown(found.c, "AccountLockedError", None, NoUser)
  ELSE search_return(found, search_reconcile(found, tgnick), tgid, tgnick, groups, t)

search(tgid, tgnick, groups, c, t) ==
  search_found(search_find(search_by_tgid(c, tgid), tgnick, tgid), tgid, tgnick, groups, t)

(* User.update: the in-place refresh of a cached user.  read_s answers with *)
(* a collection the code takes the length of: nothing when the entry is     *)
(* gone, otherwise readLen items (1, or more: the "how!?" branch).  The     *)
(* fields assigned before an exception stay assigned: the object updated is *)
(* the one the cache holds.                                                 *)

(* if also_nickname: ... __update_nickname; then __set_update_time *)
update_nick(u2, renamed, t) ==
  IF renamed.exc # "none" THEN Thrown(renamed.c, renamed.exc, None, u2)
  ELSE Thrown(renamed.c, "none", None, [u2 EXCEPT !.last_update = t])

(* the assignments self.uid ... self.isadmin from the attributes read *)
update_fields(user, c1, attributes, groups, nickname, t) ==
  LET u1 == [user EXCEPT !.uid = attributes["uid"], !.cn = attributes["cn"],
                         !.givenname = attributes["givenname"]]
  IN IF "surname" \notin DOMAIN attributes THEN Thrown(c1, "KeyError", None, u1)
     ELSE update_nick([u1 EXCEPT !.surname = attributes["surname"],
                                 !.isadmin = is_admin(groups, attributes)],
                      IF get_stored_nickname(attributes) # nickname
                      THEN update_nickname(c1, user.dn, nickname)
                      ELSE Raise(c1, "none"),
                      t)

update(user, c, groups, nickname, t, readLen) ==
  LET n == IF c.dir[user.dn].present THEN readLen ELSE 0
      c1 == Log(c, "read", n)
      attributes == Attributes(c.dir[user.dn])
  IN IF Fails(c) THEN Thrown(Log(c, "read", Failed), "LDAPError", None, user)
     ELSE IF n = 0 THEN Thrown(c1, "AccountNotFoundError", None, user)
     ELSE IF n > 1 THEN Thrown(c1, "DuplicateEntryError", None, user)
     ELSE IF IsLocked(attributes) THEN Thrown(c1, "AccountLockedError", None, user)
     ELSE update_fields(user, c1, attributes, groups, nickname, t)

----------------------------------------------------------------------------
(* Users *)

(* mutant of Without: the entry is not deleted *)
Without_kept(f, k) == f

(* del self.__users[tgid] *)
Without(f, k) == [x \in DOMAIN f \ {k} |-> f[x]]
With(f, k, v) == [x \in DOMAIN f \cup {k} |-> IF x = k THEN v ELSE f[x]]

(* mutant of exit: the session is closed only when the body returns *)
exit_on_return(sessions, exc) == IF exc = "none" THEN sessions ELSE 0

(* LdapConnection.__exit__, which `with conn as c` runs on every way out of *)
(* its body: of the sessions that __enter__ opened, how many are closed     *)
exit(sessions, exc) == sessions

(* sessions: how many times __enter__ returned a connection *)
Outcome(u, c, exc, code, value, path, sessions) ==
  [users |-> u, dir |-> c.dir, inv |-> c.inv, calls |-> c.calls, exc |-> exc,
   code |-> code, value |-> value, path |-> path, sessions |-> sessions,
   closed |-> exit(sessions, exc)]

(* Users.get.  path tells which way the call went: "hit" (cached and young),*)
(* "refresh" (stale, refreshed in place or ended by what the refresh        *)
(* raised), "evict" (stale, refresh failed, entry deleted, then             *)
(* User.search), "miss" (not cached, User.search).                          *)

(* mutant of Users_get_search: the assignment happens whatever search did *)
Users_get_search_always(u, found, tgid, path) ==
  Outcome(With(u, tgid, found.user), found.c, found.exc, found.code, found.user, path, 1)

(* mutant of Users_get_search: the user found is returned but not stored *)
Users_get_search_unstored(u, found, tgid, path) ==
  IF found.exc = "none"
  THEN Outcome(u, found.c, "none", None, found.user, path, 1)
  ELSE Outcome(u, found.c, found.exc, found.code, NoUser, path, 1)

(* user = User.search(...); self.__users[tgid] = user *)
Users_get_search(u, found, tgid, path) ==
  IF found.exc = "none"
  THEN Outcome(With(u, tgid, found.user), found.c, "none", None, found.user, path, 1)
  ELSE Outcome(u, found.c, found.exc, found.code, NoUser, path, 1)

(* the stale user, given what user.update returned *)
Users_get_stale(u, up, t, tgid, nickname) ==
  IF up.exc \in Evicting
  THEN Users_get_search(Without(u, tgid), search(tgid, nickname, admin_groups, up.c, t),
                        tgid, "evict")
  ELSE Outcome(With(u, tgid, up.user), up.c, up.exc, None,
               IF up.exc = "none" THEN up.user ELSE NoUser, "refresh", 1)

Users_get(u, d, i, t, tgid, nickname, failAt, readLen) ==
  IF tgid \in DOMAIN u /\ ~need_update(u[tgid], t)
    THEN Outcome(u, Ctx(d, i, failAt), "none", None, u[tgid], "hit", 0)
  ELSE IF failAt = 0
    THEN Outcome(u, Ctx(d, i, failAt), "LDAPError", None, NoUser,
                 IF tgid \in DOMAIN u THEN "refresh" ELSE "miss", 0)
  ELSE IF tgid \in DOMAIN u
    THEN Users_get_stale(u, update(u[tgid], Ctx(d, i, failAt), admin_groups, nickname, t,
                                   readLen),
                         t, tgid, nickname)
  ELSE Users_get_search(u, search(tgid, nickname, admin_groups, Ctx(d, i, failAt), t),
                        tgid, "miss")

(* mutant of redeemed: without a nickname the stored one is kept *)
redeemed_keep(invite, tgid, nickname) ==
  [invite EXCEPT !.tgid = tgid, !.nick = IF nickname = None THEN @ ELSE nickname]

(* mutant of redeemed: only the nickname is stored *)
redeemed_handle_only(invite, tgid, nickname) == [invite EXCEPT !.nick = nickname]

(* mutant of redeemed: a record that has an ID is left as it is *)
redeemed_once(invite, tgid, nickname) ==
  IF invite.tgid # NoId THEN invite ELSE [invite EXCEPT !.tgid = tgid, !.nick = nickname]

(* the modlist of Users.update_invite applied to the invite *)
redeemed(invite, tgid, nickname) == [invite EXCEPT !.tgid = tgid, !.nick = nickname]

(* Users.update_invite *)
Users_update_invite(u, d, i, invite_code, tgid, nickname, failAt) ==
  LET c0 == Ctx(d, i, failAt)
      result == {dn \in InviteDNs : i[dn].code = invite_code}
      c1 == Log(c0, "search_invite_code", Cardinality(result))
      dn == TheOnly(result)
      c2 == Log([c1 EXCEPT !.inv[dn] = redeemed(@, tgid, nickname)], "modify_invite", 1)
  IN IF failAt = 0 THEN Outcome(u, c0, "LDAPError", None, NoUser, "redeem", 0)
     ELSE IF Fails(c0)
       THEN Outcome(u, Log(c0, "search_invite_code", Failed), "LDAPError", None, NoUser,
                    "redeem", 1)
     ELSE IF Cardinality(result) = 0
       THEN Outcome(u, c1, "AccountNotFoundError", None, NoUser, "redeem", 1)
     ELSE IF Cardinality(result) > 1
       THEN Outcome(u, c1, "DuplicateEntryError", None, NoUser, "redeem", 1)
     ELSE IF Fails(c1)
       THEN Outcome(u, Log(c1, "modify_invite", Failed), "LDAPError", None, NoUser,
                    "redeem", 1)
     ELSE Outcome(u, c2, "none", None, NoUser, "redeem", 1)

(* mutant of Users_delete_cache: the count is returned, the entries stay *)
Users_delete_cache_kept(u) == [users |-> u, busted |-> Cardinality(DOMAIN u)]

(* Users.delete_cache *)
Users_delete_cache(u) == [users |-> [x \in {} |-> NoUser], busted |-> Cardinality(DOMAIN u)]

----------------------------------------------------------------------------
(* People *)

(* str.lower() on the account names of the model *)
Lower(s) ==
  CASE s \in {"Alice", "ALICE", "alice"} -> "alice"
    [] s \in {"Bob", "BOB", "bob"} -> "bob"
    [] OTHER -> s

NoPerson == [uid |-> None]

Person(attributes) ==
  [uid |-> attributes["uid"], cn |-> attributes["cn"],
   isadmin |-> is_admin(admin_groups, attributes),
   nickname |-> get_stored_nickname(attributes),
   tgid |-> IF "telegramid" \in DOMAIN attributes THEN attributes["telegramid"] ELSE NoId]

(* People.__sync: every person found is stored under its lower-cased uid in *)
(* the dictionary the roster already holds; then the age clock is reset.    *)
People_sync(p, lu, c, t) ==
  LET result == {dn \in DNs : c.dir[dn].present}
      c1 == Log(c, "search_people", Cardinality(result))
      found == [k \in {Lower(c.dir[dn].uid) : dn \in result} |->
                  Person(Attributes(c.dir[CHOOSE dn \in result : Lower(c.dir[dn].uid) = k]))]
  IN IF Fails(c)
       THEN [people |-> p, last_update |-> lu, c |-> Log(c, "search_people", Failed),
             exc |-> "LDAPError"]
     ELSE [people |-> [k \in DOMAIN p \cup DOMAIN found |->
                         IF k \in DOMAIN found THEN found[k] ELSE p[k]],
           last_update |-> t, c |-> c1, exc |-> "none"]

(* mutant of People_stale: a snapshot is stale one second early *)
People_stale_early(lu, t) == t - lu >= PeopleTTL

(* time() - self.last_update > 3600 *)
People_stale(lu, t) == t - lu > PeopleTTL

(* People.get *)
(* mutant of People_lookup: the argument is looked up as it was given *)
People_lookup_exact(q, uid) == IF uid \in DOMAIN q THEN q[uid] ELSE NoPerson

(* People.get, after the sync: the lower-cased uid is looked up, None if absent *)
People_lookup(q, uid) == IF Lower(uid) \in DOMAIN q THEN q[Lower(uid)] ELSE NoPerson

People_get(p, lu, d, i, t, uid, failAt) ==
  LET c0 == Ctx(d, i, failAt)
      synced == People_sync(p, lu, c0, t)
      lookup(q) == People_lookup(q, uid)
  IN IF ~People_stale(lu, t)
       THEN [people |-> p, last_update |-> lu, calls |-> <<>>, exc |-> "none",
             value |-> lookup(p), path |-> "cached", sessions |-> 0, closed |-> 0]
     ELSE IF failAt = 0
       THEN [people |-> p, last_update |-> lu, calls |-> <<>>, exc |-> "LDAPError",
             value |-> NoPerson, path |-> "sync", sessions |-> 0, closed |-> 0]
     ELSE [people |-> synced.people, last_update |-> synced.last_update,
           calls |-> synced.c.calls, exc |-> synced.exc,
           value |-> IF synced.exc = "none" THEN lookup(synced.people) ELSE NoPerson,
           path |-> "sync", sessions |-> 1, closed |-> exit(1, synced.exc)]

(* mutant of People_delete_cache: the age clock is not reset *)
People_delete_cache_clock_kept(p, lu) ==
  [people |-> [x \in {} |-> NoPerson], last_update |-> lu, busted |-> Cardinality(DOMAIN p)]

(* People.delete_cache *)
People_delete_cache(p, lu) ==
  [people |-> [x \in {} |-> NoPerson], last_update |-> 0, busted |-> Cardinality(DOMAIN p)]

----------------------------------------------------------------------------
(* What the last operation was: its arguments, the way it went (path), the  *)
(* exception it ended with and the sessions it left open.  busted: for a    *)
(* get, the IDs the delete_cache just before it removed; for a redeem, the  *)
(* IDs the records with its code held before it.                            *)

Kinds(calls) == [k \in DOMAIN calls |-> calls[k].kind]

Did(op, tgid, nickname, code, o, busted) ==
  [op |-> op, tgid |-> tgid, nickname |-> nickname, code |-> code,
   path |-> o.path, exc |-> o.exc, kinds |-> Kinds(o.calls), busted |-> busted,
   open |-> o.sessions - o.closed]

Idle == [op |-> "none", tgid |-> NoId, nickname |-> None, code |-> None,
         path |-> "none", exc |-> "none", kinds |-> <<>>, busted |-> {}, open |-> 0]

----------------------------------------------------------------------------
(* The initial state: both caches as constructed, a directory of two person *)
(* entries without a Telegram ID, and two invites not yet redeemed.         *)

Entry(dn, nick) ==
  [present |-> TRUE,
   uid |-> IF dn = Alice THEN "Alice" ELSE "bob",
   cn |-> IF dn = Alice THEN "Alice A" ELSE "Bob B",
   givenname |-> IF dn = Alice THEN "Alice" ELSE "Bob",
   sn |-> IF dn = Alice THEN "A" ELSE "B",
   memberof |-> {}, nick |-> nick, tgid |-> NoId, locked |-> FALSE]

Invite(code, tgid) == [code |-> code, tgid |-> tgid, nick |-> None]

(* the invite tree with the first k invites carrying Telegram ID 1 already  *)
(* (records of the old system, the "legacy" path of __search_by_tgid)       *)
LegacyInvites(k) ==
  [dn \in InviteDNs |->
     IF dn = Invite1 THEN Invite("INV-7", IF k >= 1 THEN 1 ELSE NoId)
     ELSE Invite("DUP", IF k >= 2 THEN 1 ELSE NoId)]

Init ==
  /\ users = [x \in {} |-> NoUser]
  /\ people = [x \in {} |-> NoPerson]
  /\ people_last_update = 0
  /\ \E n \in NickOpt : dir = [dn \in DNs |-> Entry(dn, IF dn = Alice THEN "alice" ELSE n)]
  /\ \E k \in 0 .. 2 : inv = LegacyInvites(k)
  /\ now = T0
  /\ envLeft = MaxEnv
  /\ last = Idle
  /\ resolvers = NoResolvers
  /\ handler = NoUpdate

----------------------------------------------------------------------------
(* Actions *)

Get(tgid, nickname, failAt, readLen) ==
  LET o == Users_get(users, dir, inv, now, tgid, nickname, failAt, readLen)
  IN /\ users' = o.users
     /\ dir' = o.dir
     /\ inv' = o.inv
     /\ last' = Did("get", tgid, nickname, None, o,
                     IF last.op = "delete_cache" THEN last.busted \cap {tgid} ELSE {})
     /\ UNCHANGED <<handler, resolvers, people, people_last_update, now, envLeft>>

UpdateInvite(invite_code, tgid, nickname, failAt) ==
  LET o == Users_update_invite(users, dir, inv, invite_code, tgid, nickname, failAt)
  IN /\ users' = o.users
     /\ dir' = o.dir
     /\ inv' = o.inv
     /\ last' = Did("update_invite", tgid, nickname, invite_code, o,
                     {inv[dn].tgid : dn \in {x \in InviteDNs : inv[x].code = invite_code}}
                       \ {NoId})
     /\ UNCHANGED <<handler, resolvers, people, people_last_update, now, envLeft>>

(* Users.delete_cache *)
DeleteCache ==
  /\ users' = Users_delete_cache(users).users
  /\ last' = [Idle EXCEPT !.op = "delete_cache", !.busted = DOMAIN users]
  /\ UNCHANGED <<handler, resolvers, people, people_last_update, dir, inv, now, envLeft>>

(* time passes *)
Tick(d) ==
  /\ now + d <= T0 + MaxElapsed
  /\ now' = now + d
  /\ last' = Idle
  /\ UNCHANGED <<handler, resolvers, users, people, people_last_update, dir, inv, envLeft>>

(* another client of the directory changes a person entry *)
DirKinds == {"lock", "present", "tgid", "memberof", "cn"}

DirChange(dn, kind) ==
  /\ envLeft > 0
  /\ envLeft' = envLeft - 1
  /\ \/ kind = "lock" /\ dir' = [dir EXCEPT ![dn].locked = ~@]
     \/ kind = "present" /\ dir' = [dir EXCEPT ![dn].present = ~@]
     \/ /\ kind = "tgid"
        /\ \E id \in IDs \cup {NoId} : id # dir[dn].tgid /\ dir' = [dir EXCEPT ![dn].tgid = id]
     \/ /\ kind = "memberof"
        /\ \E g \in Memberships : g # dir[dn].memberof /\ dir' = [dir EXCEPT ![dn].memberof = g]
     \/ /\ kind = "cn"
        /\ dir' = [dir EXCEPT ![dn].cn = IF @ = "Alice A" THEN "Alice B" ELSE "Alice A"]
  /\ last' = Idle
  /\ UNCHANGED <<handler, resolvers, users, people, people_last_update, inv, now>>

(* People.get and People.delete_cache *)
PeopleGet(uid, failAt) ==
  LET o == People_get(people, people_last_update, dir, inv, now, uid, failAt)
  IN /\ people' = o.people
     /\ people_last_update' = o.last_update
     /\ last' = [Idle EXCEPT !.op = "people_get", !.nickname = uid, !.path = o.path,
                              !.exc = o.exc, !.kinds = Kinds(o.calls),
                              !.open = o.sessions - o.closed,
                              !.busted = IF last.op = "people_delete_cache"
                                         THEN last.busted ELSE {}]
     /\ UNCHANGED <<handler, resolvers, users, dir, inv, now, envLeft>>

PeopleDeleteCache ==
  /\ people' = People_delete_cache(people, people_last_update).people
  /\ people_last_update' = People_delete_cache(people, people_last_update).last_update
  /\ last' = [Idle EXCEPT !.op = "people_delete_cache", !.busted = DOMAIN people]
  /\ UNCHANGED <<handler, resolvers, users, dir, inv, now, envLeft>>

(* the same operations with a directory call (or the opening of the session) *)
(* failing at gateway level                                                  *)
GetFail(tgid, nickname, failAt, readLen) ==
  /\ Get(tgid, nickname, failAt, readLen)
  /\ last'.exc = "LDAPError"

UpdateInviteFail(invite_code, tgid, nickname, failAt) ==
  /\ UpdateInvite(invite_code, tgid, nickname, failAt)
  /\ last'.exc = "LDAPError"

PeopleGetFail(uid, failAt) ==
  /\ PeopleGet(uid, failAt)
  /\ last'.exc = "LDAPError"

ReadLens == {1, 2}
Uids == {"alice", "ALICE", "Bob", "carol"}

Next ==
  \/ \E tgid \in IDs, nickname \in NickOpt, readLen \in ReadLens :
        Get(tgid, nickname, NoFail, readLen)
  \/ DeleteCache
  \/ \E d \in {UserTTL, UserTTL + 1} : Tick(d)
  \/ \E dn \in DNs, kind \in {"lock", "present", "tgid"} : DirChange(dn, kind)

Spec == Init /\ [][Next]_vars

(* the identity cache with a gateway that may fail *)
NextGateway ==
  \/ \E tgid \in IDs, nickname \in NickOpt, readLen \in ReadLens :
        Get(tgid, nickname, NoFail, readLen)
  \/ DeleteCache
  \/ \E d \in {UserTTL, UserTTL + 1} : Tick(d)
  \/ \E tgid \in IDs, nickname \in NickOpt, failAt \in FailPoints, readLen \in ReadLens :
        GetFail(tgid, nickname, failAt, readLen)

(* directories the gateway may be serving: uid=alice possibly locked,       *)
(* uid=bob possibly bound to ID 1 already                                   *)
InitGateway ==
  /\ users = [x \in {} |-> NoUser]
  /\ people = [x \in {} |-> NoPerson]
  /\ people_last_update = 0
  /\ \E n \in NickOpt, lock \in BOOLEAN, id \in {NoId, 1} :
       dir = [dn \in DNs |-> IF dn = Alice
                               THEN [Entry(dn, "alice") EXCEPT !.locked = lock]
                               ELSE [Entry(dn, n) EXCEPT !.tgid = id]]
  /\ \E k \in 0 .. 2 : inv = LegacyInvites(k)
  /\ now = T0
  /\ envLeft = 0
  /\ last = Idle
  /\ resolvers = NoResolvers
  /\ handler = NoUpdate

SpecGateway == InitGateway /\ [][NextGateway]_vars

(* invite redemption: invites not yet redeemed, two of them possibly with   *)
(* the same code                                                            *)
InitInvite ==
  /\ users = [x \in {} |-> NoUser]
  /\ people = [x \in {} |-> NoPerson]
  /\ people_last_update = 0
  /\ dir = [dn \in DNs |-> Entry(dn, IF dn = Alice THEN "alice" ELSE None)]
  /\ \E c1 \in Codes :
       inv = [dn \in InviteDNs |-> Invite(IF dn = Invite1 THEN c1 ELSE "DUP", NoId)]
  /\ now = T0
  /\ envLeft = 0
  /\ last = Idle
  /\ resolvers = NoResolvers
  /\ handler = NoUpdate

NextInvite ==
  \/ \E code \in Codes, tgid \in IDs, nickname \in NickOpt :
        UpdateInvite(code, tgid, nickname, NoFail)
  \/ \E code \in Codes, tgid \in IDs, nickname \in NickOpt, failAt \in 0 .. 2 :
        UpdateInviteFail(code, tgid, nickname, failAt)
  \/ \E tgid \in IDs, nickname \in NickOpt : Get(tgid, nickname, NoFail, 1)

SpecInvite == InitInvite /\ [][NextInvite]_vars

(* the identity cache while other clients change group memberships *)
NextAdmin ==
  \/ \E tgid \in IDs, nickname \in NickOpt : Get(tgid, nickname, NoFail, 1)
  \/ \E d \in {UserTTL, UserTTL + 1} : Tick(d)
  \/ \E dn \in DNs : DirChange(dn, "memberof")

SpecAdmin == Init /\ [][NextAdmin]_vars

(* the roster *)
NextPeople ==
  \/ \E uid \in Uids : PeopleGet(uid, NoFail)
  \/ \E uid \in Uids, failAt \in 0 .. 1 : PeopleGetFail(uid, failAt)
  \/ PeopleDeleteCache
  \/ \E d \in {PeopleTTL, PeopleTTL + 1} : Tick(d)
  \/ \E dn \in DNs, kind \in DirKinds : DirChange(dn, kind)

(* as Init, with a directory that may lack uid=bob *)
InitPeople ==
  /\ users = [x \in {} |-> NoUser]
  /\ people = [x \in {} |-> NoPerson]
  /\ people_last_update = 0
  /\ \E n \in NickOpt, b \in BOOLEAN :
       dir = [dn \in DNs |-> IF dn = Alice THEN Entry(dn, "alice")
                               ELSE [Entry(dn, n) EXCEPT !.present = b]]
  /\ \E k \in 0 .. 2 : inv = LegacyInvites(k)
  /\ now = T0
  /\ envLeft = MaxEnv
  /\ last = Idle
  /\ resolvers = NoResolvers
  /\ handler = NoUpdate

SpecPeople == InitPeople /\ [][NextPeople]_vars

----------------------------------------------------------------------------
(* Properties.  A property of an operation is stated of the operation       *)
(* applied, in every reachable state, to every input: o is what the         *)
(* operation returns and leaves behind.                                     *)

AnyFail == FailPoints \cup {NoFail}
ById(d, X) == {dn \in DNs : d[dn].present /\ d[dn].tgid = X}
ByNick(d, h) == {dn \in DNs : d[dn].present /\ d[dn].tgid = NoId /\ d[dn].nick = h}
InvitesById(i, X) == {dn \in InviteDNs : i[dn].tgid = X}
InvitesByCode(i, code) == {dn \in InviteDNs : i[dn].code = code}
HasKind(calls, kinds) == \E j \in DOMAIN calls : calls[j].kind \in kinds
Modifies == {"modify_id", "modify_nickname", "modify_invite"}
Age(user) == now - user.last_update
Cold(o) == o.path \in {"miss", "evict"}
(* the calls of the resolution protocol: all but the read of a stale refresh *)
ColdCalls(o) == IF o.path = "evict" THEN Tail(o.calls) ELSE o.calls
IsPrefix(p, q) == Len(p) <= Len(q) /\ \A j \in DOMAIN p : p[j] = q[j]

(* C1: a get for an ID whose cached entry is at most 3600 s old returns     *)
(* that entry unchanged, opens no session and issues no directory call,     *)
(* whatever the handle, whatever the directory holds and whether or not the *)
(* gateway would fail; cache and directory are left as they were.           *)
C1_FreshHitNoDirectory ==
  \A tgid \in DOMAIN users, nickname \in NickOpt, failAt \in AnyFail, readLen \in ReadLens :
    Age(users[tgid]) <= 3600 =>
      LET o == Users_get(users, dir, inv, now, tgid, nickname, failAt, readLen)
      IN /\ o.exc = "none"
         /\ o.value = users[tgid]
         /\ o.users = users
         /\ o.sessions = 0
         /\ o.calls = <<>>
         /\ o.dir = dir
         /\ o.inv = inv

C1_Witness ==
  /\ last.op = "get" /\ last.path = "hit"
  /\ last.tgid \in DOMAIN users
  /\ Age(users[last.tgid]) = 3600
  /\ last.nickname # users[last.tgid].nickname
  /\ last.nickname # dir[users[last.tgid].dn].nick

(* C2, as claimed: when no person entry and no invite has ID X and exactly  *)
(* one person entry has handle h and no ID, a get(X, h) that runs the       *)
(* resolution protocol writes X into that entry, searches by ID again and   *)
(* returns that entry's profile.                                            *)
C2_FallbackReturnsProfile ==
  \A X \in IDs, h \in Nicks, readLen \in ReadLens :
    LET o == Users_get(users, dir, inv, now, X, h, NoFail, readLen)
    IN (/\ Cold(o)
        /\ ById(dir, X) = {}
        /\ InvitesById(inv, X) = {}
        /\ Cardinality(ByNick(dir, h)) = 1)
       => /\ o.dir[TheOnly(ByNick(dir, h))].tgid = X
          /\ o.exc = "none"
          /\ o.value.dn = TheOnly(ByNick(dir, h))

(* C2, amended: under the same conditions the get issues ID search, invite  *)
(* lookup, handle search, the write of X and the ID search again; the entry *)
(* then is the only one with ID X; the get returns its profile and caches   *)
(* it if the entry has no lock marker, and fails AccountLocked (nothing     *)
(* cached, the ID written) if it has one.  And whenever exactly one person  *)
(* entry has ID X, a get(X, h') with any h' issues no handle search and no  *)
(* write of the ID: on a cold resolution the ID search is the first call    *)
(* and finds that entry, which is the one returned.                         *)
C2_FallbackConverges ==
  /\ \A X \in IDs, h \in Nicks, readLen \in ReadLens :
       LET o == Users_get(users, dir, inv, now, X, h, NoFail, readLen)
           e == TheOnly(ByNick(dir, h))
       IN (/\ Cold(o)
           /\ ById(dir, X) = {}
           /\ InvitesById(inv, X) = {}
           /\ Cardinality(ByNick(dir, h)) = 1)
          => /\ IsPrefix(<<"search_tgid", "search_invite_tgid", "search_nickname",
                           "modify_id", "search_tgid">>, Kinds(ColdCalls(o)))
             /\ o.dir[e].tgid = X
             /\ ById(o.dir, X) = {e}
             /\ IF dir[e].locked
                THEN o.exc = "AccountLockedError" /\ X \notin DOMAIN o.users
                ELSE /\ o.exc = "none"
                     /\ o.value.dn = e /\ o.value.tgid = X
                     /\ o.users[X] = o.value
  /\ \A X \in IDs, h \in NickOpt, readLen \in ReadLens :
       LET o == Users_get(users, dir, inv, now, X, h, NoFail, readLen)
       IN Cardinality(ById(dir, X)) = 1
          => /\ ~HasKind(o.calls, {"search_nickname", "modify_id"})
             /\ Cold(o)
                => /\ ColdCalls(o)[1] = [kind |-> "search_tgid", n |-> 1]
                   /\ ~HasKind(o.calls, {"search_invite_tgid"})
                   /\ o.exc = "none" => o.value.dn = TheOnly(ById(dir, X))

C2_Witness ==
  /\ last.op = "get" /\ last.exc = "none" /\ last.path = "miss"
  /\ last.kinds = <<"search_tgid", "search_invite_tgid", "search_nickname",
                    "modify_id", "search_tgid">>
  /\ last.tgid \in DOMAIN users
  /\ dir[users[last.tgid].dn].tgid = last.tgid

(* C3: when the cached entry for id is older than 3600 s and its in-place   *)
(* re-read fails with NotFound (the entry is gone), AccountLocked (it has a *)
(* lock marker) or DuplicateEntry (the read answers with more than one      *)
(* item), the entry is deleted from the cache and the resolution protocol   *)
(* runs with the caller's handle: what get returns or raises, the cache and *)
(* the directory it leaves and the calls it issues after the read are those *)
(* of a get(id, h) on the cache without id (a gateway failure at a later    *)
(* call being the failure of the same call of the cold get).                *)
C3_FailedRefreshIsColdGet ==
  \A tgid \in DOMAIN users, nickname \in NickOpt, failAt \in {2, 4, NoFail},
     readLen \in ReadLens :
    (/\ Age(users[tgid]) > 3600
     /\ \/ ~dir[users[tgid].dn].present
        \/ readLen > 1
        \/ dir[users[tgid].dn].locked)
    => LET o == Users_get(users, dir, inv, now, tgid, nickname, failAt, readLen)
           cold == Users_get(Without(users, tgid), dir, inv, now, tgid, nickname,
                             IF failAt = NoFail THEN NoFail ELSE failAt - 1, readLen)
       IN /\ o.path = "evict" /\ cold.path = "miss"
          /\ o.calls[1].kind = "read"
          /\ Tail(o.calls) = cold.calls
          /\ o.exc = cold.exc /\ o.code = cold.code /\ o.value = cold.value
          /\ o.users = cold.users
          /\ o.dir = cold.dir /\ o.inv = cold.inv
          /\ o.exc # "none" => tgid \notin DOMAIN o.users

C3_Witness ==
  /\ last.op = "get" /\ last.path = "evict"
  /\ last.exc = "AccountNotFoundError"
  /\ last.tgid \notin DOMAIN users

(* C4, as claimed: for an ID whose directory entry carries a lock marker,   *)
(* every get fails AccountLocked and leaves no cache entry for the ID.      *)
C4_LockedAlwaysFails ==
  \A tgid \in IDs, nickname \in NickOpt :
    LET o == Users_get(users, dir, inv, now, tgid, nickname, NoFail, 1)
    IN (Cardinality(ById(dir, tgid)) = 1 /\ dir[TheOnly(ById(dir, tgid))].locked)
       => o.exc = "AccountLockedError" /\ tgid \notin DOMAIN o.users

(* C4, amended: for an ID whose only directory entry carries a lock marker, *)
(* a get that finds no cached entry, or a stale cached entry at that        *)
(* location, fails AccountLocked and leaves no entry for the ID, so the     *)
(* next get starts the same way; no get that fails AccountLocked, by        *)
(* whatever path, leaves an entry for its ID; a get that finds an entry     *)
(* cached before the marker was set and at most 3600 s old returns it.      *)
C4_LockedNeverCached ==
  \A tgid \in IDs, nickname \in NickOpt, readLen \in ReadLens :
    /\ LET o == Users_get(users, dir, inv, now, tgid, nickname, NoFail, readLen)
           e == TheOnly(ById(dir, tgid))
       IN (/\ Cardinality(ById(dir, tgid)) = 1
           /\ dir[e].locked
           /\ \/ tgid \notin DOMAIN users
              \/ Age(users[tgid]) > 3600 /\ users[tgid].dn = e)
          => /\ o.exc = "AccountLockedError"
             /\ tgid \notin DOMAIN o.users
             /\ o.value = NoUser
    /\ LET o == Users_get(users, dir, inv, now, tgid, nickname, NoFail, readLen)
       IN /\ o.exc = "AccountLockedError" => tgid \notin DOMAIN o.users
          /\ (tgid \in DOMAIN users /\ Age(users[tgid]) <= 3600)
               => o.exc = "none" /\ o.value = users[tgid]

C4_Witness ==
  /\ last.op = "get" /\ last.exc = "AccountLockedError"
  /\ last.tgid \notin DOMAIN users
  /\ \E dn \in DNs : dir[dn].present /\ dir[dn].tgid = last.tgid /\ dir[dn].locked

(* C5, as claimed: after a Roster get that resyncs, the roster holds        *)
(* exactly the entries the directory search returned.                       *)
C5_RosterIsTheSearchResult ==
  \A uid \in Uids :
    LET o == People_get(people, people_last_update, dir, inv, now, uid, NoFail)
    IN o.path = "sync"
       => DOMAIN o.people = {Lower(dir[dn].uid) : dn \in {x \in DNs : dir[x].present}}

(* C6: a get that runs the resolution protocol and whose ID search, invite  *)
(* lookup by ID or handle search matches more than one entry fails          *)
(* DuplicateEntry, has issued no modify, leaves the directory as it was and *)
(* leaves no cache entry for its ID.                                        *)
C6_AmbiguityFails ==
  \A tgid \in IDs, nickname \in NickOpt, readLen \in ReadLens :
    /\ LET o == Users_get(users, dir, inv, now, tgid, nickname, NoFail, readLen)
       IN (/\ Cold(o)
           /\ \/ Cardinality(ById(dir, tgid)) > 1
              \/ ById(dir, tgid) = {} /\ Cardinality(InvitesById(inv, tgid)) > 1
              \/ /\ ById(dir, tgid) = {} /\ InvitesById(inv, tgid) = {}
                 /\ nickname # None /\ Cardinality(ByNick(dir, nickname)) > 1)
          => /\ o.exc = "DuplicateEntryError"
             /\ ~HasKind(o.calls, Modifies)
             /\ o.dir = dir /\ o.inv = inv
             /\ tgid \notin DOMAIN o.users
    /\ LET o == Users_get(users, dir, inv, now, tgid, nickname, NoFail, readLen)
       IN (\E j \in DOMAIN o.calls : o.calls[j].kind # "read" /\ o.calls[j].n > 1)
          => /\ o.exc = "DuplicateEntryError"
             /\ ~HasKind(o.calls, Modifies)
             /\ o.dir = dir
             /\ tgid \notin DOMAIN o.users

C6_Witness ==
  /\ last.op = "get" /\ last.exc = "DuplicateEntryError"
  /\ last.kinds = <<"search_tgid", "search_invite_tgid", "search_nickname">>
  /\ last.nickname # None
  /\ Cardinality(ByNick(dir, last.nickname)) = 2
  /\ last.tgid \notin DOMAIN users

(* C7: when no person entry has ID X and exactly one invite has it, with    *)
(* code C, a get(X, h) that runs the resolution protocol fails              *)
(* IncompleteRegistration carrying C for every h, also when a person entry  *)
(* with handle h and no ID exists: it issues the ID search and the invite   *)
(* lookup and nothing else, writes nothing and caches nothing.              *)
C7_LegacyInvite ==
  \A X \in IDs, h \in NickOpt, readLen \in ReadLens :
    LET o == Users_get(users, dir, inv, now, X, h, NoFail, readLen)
    IN (Cold(o) /\ ById(dir, X) = {} /\ Cardinality(InvitesById(inv, X)) = 1)
       => /\ o.exc = "AccountNotCompletedError"
          /\ o.code = inv[TheOnly(InvitesById(inv, X))].code
          /\ Kinds(ColdCalls(o)) = <<"search_tgid", "search_invite_tgid">>
          /\ o.dir = dir /\ o.inv = inv
          /\ X \notin DOMAIN o.users
          /\ o.value = NoUser

C7_Witness ==
  /\ last.op = "get" /\ last.exc = "AccountNotCompletedError"
  /\ last.nickname # None
  /\ ByNick(dir, last.nickname) # {}
  /\ last.tgid \notin DOMAIN users

C9_BustThenColdGet ==
  LET d == Users_delete_cache(users)
  IN /\ d.busted = Cardinality(DOMAIN users)
     /\ DOMAIN d.users = {}
     /\ \A tgid \in DOMAIN users, nickname \in NickOpt, failAt \in {0, 1, NoFail},
           readLen \in ReadLens :
          LET o == Users_get(d.users, dir, inv, now, tgid, nickname, failAt, readLen)
          IN /\ o.path = "miss"
             /\ failAt # 0 => o.sessions = 1 /\ o.calls[1].kind = "search_tgid"
             /\ ~HasKind(o.calls, {"read"})

C9_Witness ==
  /\ last.op = "get" /\ last.busted = {last.tgid}
  /\ last.path = "miss"
  /\ last.kinds # <<>> /\ last.kinds[1] = "search_tgid"

(* C10, as claimed: a get of the identity cache or of the roster that ends  *)
(* with a gateway failure leaves the identity cache and the roster,         *)
(* entries and age clock, as they were before the call.                     *)
C10_GatewayFailureKeepsCaches ==
  /\ \A tgid \in IDs, nickname \in NickOpt, failAt \in FailPoints :
       LET o == Users_get(users, dir, inv, now, tgid, nickname, failAt, 1)
       IN o.exc = "LDAPError" => o.users = users
  /\ \A uid \in Uids, failAt \in FailPoints :
       LET o == People_get(people, people_last_update, dir, inv, now, uid, failAt)
       IN o.exc = "LDAPError"
          => o.people = people /\ o.last_update = people_last_update

(* C11, as claimed: a get for an ID whose cached entry is older than 3600 s,*)
(* when the entry at the cached location exists and has no lock marker (and *)
(* the read answers with that one entry), issues the read and no search,    *)
(* returns the cached profile with account name, display names and admin    *)
(* flag as read and the timestamp set to now, keeps it in the cache, and    *)
(* leaves the directory handle equal to the caller's.                       *)
C11_RefreshInPlace ==
  \A tgid \in DOMAIN users, nickname \in NickOpt :
    (/\ Age(users[tgid]) > 3600
     /\ dir[users[tgid].dn].present
     /\ ~dir[users[tgid].dn].locked)
    => LET o == Users_get(users, dir, inv, now, tgid, nickname, NoFail, 1)
           e == dir[users[tgid].dn]
       IN /\ o.exc = "none"
          /\ o.calls[1].kind = "read"
          /\ ~HasKind(o.calls, {"search_tgid", "search_nickname", "search_invite_tgid"})
          /\ o.value.uid = e.uid /\ o.value.cn = e.cn
          /\ o.value.givenname = e.givenname /\ o.value.surname = e.sn
          /\ o.value.isadmin = (e.memberof \cap admin_groups # {})
          /\ o.value.last_update = now
          /\ o.users[tgid] = o.value
          /\ o.dir[users[tgid].dn].nick = nickname

(* C12, as claimed: every get of the identity cache, every redeem and every *)
(* roster get ends with a value or with one of NotFound, DuplicateEntry,    *)
(* AccountLocked, IncompleteRegistration, GatewayUnavailable.               *)
Surface ==
  {"none", "AccountNotFoundError", "DuplicateEntryError", "AccountLockedError",
   "AccountNotCompletedError", "LDAPError"}

C12_ClosedFailureSurface ==
  /\ \A tgid \in IDs, nickname \in NickOpt, failAt \in {0, 1, 2, NoFail},
        readLen \in ReadLens :
       Users_get(users, dir, inv, now, tgid, nickname, failAt, readLen).exc \in Surface
  /\ \A code \in Codes, tgid \in IDs, nickname \in NickOpt, failAt \in {0, 1, 2, NoFail} :
       Users_update_invite(users, dir, inv, code, tgid, nickname, failAt).exc \in Surface
  /\ \A uid \in Uids, failAt \in {0, 1, NoFail} :
       People_get(people, people_last_update, dir, inv, now, uid, failAt).exc \in Surface

(* C13: every get, redeem and roster get opens at most one session, opens   *)
(* exactly one whenever it issues a directory call, and has closed every    *)
(* session it opened when it ends, whether it returns, raises a typed       *)
(* failure or a directory call fails; no session is open between            *)
(* operations.                                                              *)
Scoped(o) ==
  /\ o.sessions \in {0, 1}
  /\ o.calls # <<>> => o.sessions = 1
  /\ o.closed = o.sessions

C14_BoundIdIsKept ==
  \A Y \in IDs, h \in NickOpt, readLen \in ReadLens :
    LET o == Users_get(users, dir, inv, now, Y, h, NoFail, readLen)
    IN /\ \A dn \in DNs : dir[dn].tgid # NoId => o.dir[dn].tgid = dir[dn].tgid
       /\ (/\ Cold(o) /\ h # None
           /\ ById(dir, Y) = {} /\ InvitesById(inv, Y) = {} /\ ByNick(dir, h) = {}
           /\ \E E \in DNs : dir[E].present /\ dir[E].nick = h /\ dir[E].tgid \notin {NoId, Y})
          => /\ o.exc = "AccountNotFoundError"
             /\ HasKind(o.calls, {"search_nickname"})
             /\ ~HasKind(o.calls, Modifies)
             /\ o.dir = dir

C14_Witness ==
  /\ last.op = "get" /\ last.exc = "AccountNotFoundError"
  /\ last.nickname # None
  /\ \E j \in DOMAIN last.kinds : last.kinds[j] = "search_nickname"
  /\ \E E \in DNs : /\ dir[E].present /\ dir[E].nick = last.nickname
                    /\ dir[E].tgid \notin {NoId, last.tgid}
  /\ ByNick(dir, last.nickname) = {}

(* C15: a get(id, h) that runs the resolution protocol and returns a        *)
(* profile issues a handle modify, once, if and only if the handle stored   *)
(* in the resolved entry differs from h (one of them may be absent), and    *)
(* the entry's handle is h afterwards (absent when h is absent); the        *)
(* other entries keep their handle.                                         *)
C15_HandleReconciled ==
  \A id \in IDs, h \in NickOpt, readLen \in ReadLens :
    LET o == Users_get(users, dir, inv, now, id, h, NoFail, readLen)
    IN (Cold(o) /\ o.exc = "none")
       => /\ HasKind(o.calls, {"modify_nickname"}) <=> dir[o.value.dn].nick # h
          /\ Cardinality({j \in DOMAIN o.calls : o.calls[j].kind = "modify_nickname"}) <= 1
          /\ o.dir[o.value.dn].nick = h
          /\ o.value.nickname = h
          /\ \A dn \in DNs \ {o.value.dn} : o.dir[dn].nick = dir[dn].nick

C15_Witness ==
  /\ last.op = "get" /\ last.exc = "none" /\ last.path = "miss"
  /\ last.nickname = None
  /\ last.kinds = <<"search_tgid", "modify_nickname">>
  /\ last.tgid \in DOMAIN users
  /\ dir[users[last.tgid].dn].nick = None

(* C16: a get(X, h) that finds no cached entry for X, when exactly one      *)
(* person entry has ID X, it has no lock marker and its stored handle is h, *)
(* issues the ID search and nothing else (no handle search, no modify),     *)
(* returns a profile with ID X located at that entry, inserts it in the     *)
(* cache and leaves the directory and the other cache entries as they were. *)
C16_ColdById ==
  \A X \in IDs \ DOMAIN users, h \in NickOpt, readLen \in ReadLens :
    LET o == Users_get(users, dir, inv, now, X, h, NoFail, readLen)
        e == TheOnly(ById(dir, X))
    IN (Cardinality(ById(dir, X)) = 1 /\ ~dir[e].locked /\ dir[e].nick = h)
       => /\ o.exc = "none"
          /\ Kinds(o.calls) = <<"search_tgid">>
          /\ o.value.tgid = X /\ o.value.dn = e
          /\ o.value.uid = dir[e].uid /\ o.value.last_update = now
          /\ DOMAIN o.users = DOMAIN users \cup {X}
          /\ o.users[X] = o.value
          /\ \A x \in DOMAIN users : o.users[x] = users[x]
          /\ o.dir = dir /\ o.inv = inv

C16_Witness ==
  /\ last.op = "get" /\ last.exc = "none" /\ last.path = "miss"
  /\ last.kinds = <<"search_tgid">>
  /\ last.tgid \in DOMAIN users
  /\ dir[users[last.tgid].dn].nick = last.nickname
  /\ users[last.tgid].last_update = now

(* C17, as claimed: when the refresh of a stale cached entry fails          *)
(* NotFound, AccountLocked or DuplicateEntry, the get leaves no entry for   *)
(* the ID and ends with that failure.                                       *)
C17_RefreshFailurePropagates ==
  \A tgid \in DOMAIN users, nickname \in NickOpt, readLen \in ReadLens :
    Age(users[tgid]) > 3600
    => LET up == update(users[tgid], Ctx(dir, inv, NoFail), admin_groups, nickname, now,
                        readLen)
           o == Users_get(users, dir, inv, now, tgid, nickname, NoFail, readLen)
       IN up.exc \in Evicting => o.exc = up.exc /\ tgid \notin DOMAIN o.users

(* C17, amended: when the refresh of a stale cached entry fails NotFound,   *)
(* AccountLocked or DuplicateEntry, the entry is deleted and the failure is *)
(* not reported: the resolution protocol runs (the ID search is the call    *)
(* after the read) and the get ends as the protocol ends.  If it fails, so  *)
(* does the get, with the protocol's failure, and no entry for the ID is    *)
(* left; if it returns a profile the get returns it, newly timestamped and  *)
(* cached.  A refresh that failed AccountLocked on the only entry with the  *)
(* ID ends AccountLocked again.                                             *)
C17_EvictThenResolve ==
  \A tgid \in DOMAIN users, nickname \in NickOpt, readLen \in ReadLens :
    Age(users[tgid]) > 3600
    => LET up == update(users[tgid], Ctx(dir, inv, NoFail), admin_groups, nickname, now,
                        readLen)
           o == Users_get(users, dir, inv, now, tgid, nickname, NoFail, readLen)
       IN up.exc \in Evicting
          => /\ Len(o.calls) >= 2
             /\ o.calls[1].kind = "read" /\ o.calls[2].kind = "search_tgid"
             /\ o.exc # "none" => tgid \notin DOMAIN o.users /\ o.value = NoUser
             /\ o.exc = "none"
                  => /\ tgid \in DOMAIN o.users /\ o.users[tgid] = o.value
                     /\ o.value.last_update = now
                     /\ o.dir[o.value.dn].tgid = tgid
             /\ (up.exc = "AccountLockedError" /\ ById(dir, tgid) = {users[tgid].dn})
                  => o.exc = "AccountLockedError"
             /\ \A x \in DOMAIN users \ {tgid} : o.users[x] = users[x]

C17_Witness ==
  /\ last.op = "get" /\ last.path = "evict" /\ last.exc = "none"
  /\ last.kinds[1] = "read" /\ last.kinds[2] = "search_tgid"
  /\ last.tgid \in DOMAIN users
  /\ users[last.tgid].last_update = now
  /\ now > T0

(* C18: a get that runs the resolution protocol (on a miss or after the     *)
(* eviction of a stale entry) leaves an entry for its ID if and only if the *)
(* protocol returned a profile; a get that fails NotFound, AccountLocked,   *)
(* DuplicateEntry or IncompleteRegistration has run the protocol and leaves *)
(* no entry for its ID; no get adds, removes or changes the entry of        *)
(* another ID.                                                              *)
C18_InsertOnlyOnSuccess ==
  \A id \in IDs, h \in NickOpt, failAt \in {2, NoFail}, readLen \in ReadLens :
    LET o == Users_get(users, dir, inv, now, id, h, failAt, readLen)
    IN /\ Cold(o) => (id \in DOMAIN o.users <=> o.exc = "none")
       /\ o.exc \in {"AccountNotFoundError", "AccountLockedError", "DuplicateEntryError",
                     "AccountNotCompletedError"}
            => Cold(o) /\ id \notin DOMAIN o.users
       /\ DOMAIN o.users \ {id} = DOMAIN users \ {id}
       /\ \A x \in DOMAIN users \ {id} : o.users[x] = users[x]

C18_Witness ==
  /\ last.op = "get" /\ last.path = "miss"
  /\ last.exc = "AccountNotCompletedError"
  /\ last.tgid \notin DOMAIN users
  /\ \E x \in DOMAIN users : x # last.tgid

(* C19: inside one get, redeem or roster get a directory call that fails is *)
(* the last call and its failure is what the operation ends with; no call   *)
(* is issued twice, but for the ID search, issued a second time only right  *)
(* after the write of the ID that the handle search led to; the read comes  *)
(* first and once; the handle search comes once, only after an ID search    *)
(* and an invite lookup that found nothing, and when it finds nothing       *)
(* itself the get ends NotFound.                                            *)
Count(calls, kind) == Cardinality({j \in DOMAIN calls : calls[j].kind = kind})

FailedCallIsLast(o, failAt) ==
  \A j \in DOMAIN o.calls :
    o.calls[j].n = Failed => j = Len(o.calls) /\ j = failAt /\ o.exc = "LDAPError"

C19_NoRetry ==
  /\ \A tgid \in IDs, nickname \in NickOpt, failAt \in AnyFail, readLen \in ReadLens :
       LET o == Users_get(users, dir, inv, now, tgid, nickname, failAt, readLen)
       IN /\ FailedCallIsLast(o, failAt)
          /\ \A kind \in {"read", "search_nickname", "search_invite_tgid", "modify_id",
                          "modify_nickname"} : Count(o.calls, kind) <= 1
          /\ Count(o.calls, "search_tgid") <= 2
          /\ \A j \in DOMAIN o.calls :
               /\ o.calls[j].kind = "read" => j = 1
               /\ (o.calls[j].kind = "search_tgid" /\ j > 1 /\ o.calls[j - 1].kind # "read")
                    => o.calls[j - 1] = [kind |-> "modify_id", n |-> 1]
               /\ o.calls[j].kind = "search_nickname"
                    => /\ j > 2
                       /\ o.calls[j - 1] = [kind |-> "search_invite_tgid", n |-> 0]
                       /\ o.calls[j - 2] = [kind |-> "search_tgid", n |-> 0]
               /\ o.calls[j] = [kind |-> "search_nickname", n |-> 0]
                    => j = Len(o.calls) /\ o.exc = "AccountNotFoundError"
  /\ \A code \in Codes, tgid \in IDs, failAt \in {0, 1, 2, NoFail} :
       LET o == Users_update_invite(users, dir, inv, code, tgid, None, failAt)
       IN /\ FailedCallIsLast(o, failAt)
          /\ IsPrefix(Kinds(o.calls), <<"search_invite_code", "modify_invite">>)
  /\ \A uid \in Uids, failAt \in {0, 1, NoFail} :
       LET o == People_get(people, people_last_update, dir, inv, now, uid, failAt)
       IN FailedCallIsLast(o, failAt) /\ Len(o.calls) <= 1

C19_Witness ==
  /\ last.op = "get" /\ last.exc = "LDAPError"
  /\ last.kinds = <<"search_tgid", "search_invite_tgid", "search_nickname">>
  /\ last.tgid \notin DOMAIN users

(* C20: a roster get issues the directory search if and only if more than   *)
(* 3600 s passed since the age clock (set to 0 at construction, so always   *)
(* on the first get), unless the session cannot be opened; a sync that      *)
(* completes sets the age clock to now, whatever the number of entries      *)
(* found; a get up to 3600 s after that issues no call and opens no         *)
(* session, and one 3601 s after it searches again.                         *)
C20_RosterRefreshTiming ==
  \A uid \in Uids, failAt \in {0, 1, NoFail} :
    LET o == People_get(people, people_last_update, dir, inv, now, uid, failAt)
        later(d) == People_get(o.people, o.last_update, dir, inv, now + d, uid, NoFail)
    IN /\ o.calls # <<>> => now - people_last_update > 3600
       /\ (now - people_last_update > 3600 /\ failAt # 0)
            => Kinds(o.calls) = <<"search_people">> /\ o.sessions = 1
       /\ people_last_update = 0 => o.path = "sync"
       /\ now - people_last_update <= 3600
            => /\ o.calls = <<>> /\ o.sessions = 0 /\ o.exc = "none"
               /\ o.people = people /\ o.last_update = people_last_update
       /\ (o.calls # <<>> /\ o.exc = "none")
            => /\ o.last_update = now
               /\ o.calls[1].n = Cardinality({dn \in DNs : dir[dn].present})
               /\ \A d \in {0, 3600} : later(d).calls = <<>> /\ later(d).sessions = 0
               /\ later(3601).calls # <<>>

C20_Witness ==
  /\ last.op = "people_get" /\ last.path = "cached" /\ last.kinds = <<>>
  /\ people_last_update > 0
  /\ now - people_last_update = 3600
  /\ DOMAIN people = {}
  /\ \A dn \in DNs : ~dir[dn].present

(* C21: the roster's delete_cache returns the number of roster entries,     *)
(* leaves the roster empty and the age clock at 0; the roster get that      *)
(* follows it searches the directory whatever the time since the last sync  *)
(* (and when the search completes the roster is what the search returned).  *)
C21_RosterBustForcesSync ==
  LET d == People_delete_cache(people, people_last_update)
  IN /\ d.busted = Cardinality(DOMAIN people)
     /\ DOMAIN d.people = {}
     /\ d.last_update = 0
     /\ \A uid \in Uids :
          LET o == People_get(d.people, d.last_update, dir, inv, now, uid, NoFail)
          IN /\ o.path = "sync" /\ o.sessions = 1
             /\ Kinds(o.calls) = <<"search_people">>
             /\ o.last_update = now
             /\ DOMAIN o.people = {Lower(dir[dn].uid) : dn \in {x \in DNs : dir[x].present}}

C21_Witness ==
  /\ last.op = "people_get" /\ last.path = "sync" /\ last.exc = "none"
  /\ last.busted # {}
  /\ now = T0
  /\ people_last_update = now

(* C22, as claimed: the admin flag derived from an entry's attributes is    *)
(* true if and only if one of its membership values is in the allow-list    *)
(* (false without a membership attribute); the flag of a cached profile     *)
(* after a get that resolved it or re-read its entry, and the flag of every *)
(* roster entry after a sync, is the flag derived from the attributes that  *)
(* operation read.                                                          *)
Derived(e) == e.memberof \cap admin_groups # {}

C22_AdminFlag ==
  /\ \A dn \in DNs : is_admin(admin_groups, Attributes(dir[dn])) <=> Derived(dir[dn])
  /\ \A tgid \in IDs, nickname \in NickOpt :
       LET o == Users_get(users, dir, inv, now, tgid, nickname, NoFail, 1)
       IN /\ (Cold(o) /\ o.exc = "none")
               => o.users[tgid].isadmin = Derived(o.dir[o.users[tgid].dn])
          /\ (/\ o.path = "refresh"
              /\ dir[users[tgid].dn].present /\ ~dir[users[tgid].dn].locked)
               => o.users[tgid].isadmin = Derived(dir[users[tgid].dn])
  /\ \A uid \in Uids :
       LET o == People_get(people, people_last_update, dir, inv, now, uid, NoFail)
       IN o.path = "sync"
          => \A dn \in DNs :
               dir[dn].present => o.people[Lower(dir[dn].uid)].isadmin = Derived(dir[dn])

C24_RosterLookup ==
  \A uid \in Uids :
    LET o == People_get(people, people_last_update, dir, inv, now, uid, NoFail)
        hits == {k \in DOMAIN o.people : Lower(o.people[k].uid) = Lower(uid)}
    IN /\ o.exc = "none"
       /\ hits # {} => /\ o.value = o.people[TheOnly(hits)]
                       /\ Lower(o.value.uid) = Lower(uid)
       /\ hits = {} => o.value = NoPerson
       /\ \A other \in Uids :
            Lower(other) = Lower(uid)
            => People_get(people, people_last_update, dir, inv, now, other, NoFail).value
               = o.value

C24_Witness ==
  /\ last.op = "people_get" /\ last.exc = "none" /\ last.nickname = "ALICE"
  /\ "alice" \in DOMAIN people
  /\ "carol" \notin DOMAIN people

----------------------------------------------------------------------------
(* Two calls of User.search in threads of their own, cold, for different    *)
(* Telegram IDs and the same nickname.  Every directory call is one step;   *)
(* so is the return.  Nothing orders the steps of one against the other's.  *)

Resolvers == {1, 2}

Searching(tgid, tgnick) ==
  [pc |-> "search_by_tgid", tgid |-> tgid, tgnick |-> tgnick, dn |-> None,
   fallback |-> FALSE, exc |-> "none", bound |-> NoId]

Raised(r, exc) == [r EXCEPT !.pc = "done", !.exc = exc]

(* User.search from the lock check on, on the attributes the search returned *)
Searched(r, dn, attributes) ==
  IF IsLocked(attributes) THEN Raised(r, "AccountLockedError")
  ELSE IF get_stored_nickname(attributes) # r.tgnick
    THEN [r EXCEPT !.pc = "update_nickname", !.dn = dn]
  ELSE [r EXCEPT !.pc = "return", !.dn = dn]

(* conn.search_s of __search_by_tgid and what follows without a directory call *)
Step_search_by_tgid(p) ==
  LET r == resolvers[p]
      result == {dn \in DNs : dir[dn].present /\ dir[dn].tgid = r.tgid}
  IN /\ r.pc = "search_by_tgid"
     /\ resolvers' = [resolvers EXCEPT ![p] =
          IF Cardinality(result) = 0 THEN [r EXCEPT !.pc = "get_invite_from_tgid"]
          ELSE IF Cardinality(result) > 1 THEN Raised(r, "DuplicateEntryError")
          ELSE Searched(r, TheOnly(result), Attributes(dir[TheOnly(result)]))]
     /\ UNCHANGED <<handler, users, people, people_last_update, dir, inv, now, envLeft, last>>

(* conn.search_s of __get_invite_from_tgid; AccountNotFoundError is caught  *)
(* by User.search only when raised by its first __search_by_tgid            *)
Step_get_invite_from_tgid(p) ==
  LET r == resolvers[p]
      invite == search_by_tgid_none(get_invite_from_tgid(Ctx(dir, inv, NoFail), r.tgid))
  IN /\ r.pc = "get_invite_from_tgid"
     /\ resolvers' = [resolvers EXCEPT ![p] =
          IF FallsBack(invite.exc) /\ ~r.fallback /\ r.tgnick # None
            THEN [r EXCEPT !.pc = "search_by_nickname", !.fallback = TRUE]
          ELSE Raised(r, invite.exc)]
     /\ UNCHANGED <<handler, users, people, people_last_update, dir, inv, now, envLeft, last>>

(* conn.search_s of __search_by_nickname *)
Step_search_by_nickname(p) ==
  LET r == resolvers[p]
      result == {dn \in DNs : /\ dir[dn].present
                              /\ dir[dn].tgid = NoId
                              /\ dir[dn].nick = r.tgnick}
  IN /\ r.pc = "search_by_nickname"
     /\ resolvers' = [resolvers EXCEPT ![p] =
          IF Cardinality(result) = 0 THEN Raised(r, "AccountNotFoundError")
          ELSE IF Cardinality(result) > 1 THEN Raised(r, "DuplicateEntryError")
          ELSE [r EXCEPT !.pc = "update_id", !.dn = TheOnly(result)]]
     /\ UNCHANGED <<handler, users, people, people_last_update, dir, inv, now, envLeft, last>>

(* conn.modify_s of __update_id, on the dn the nickname search returned *)
Step_update_id(p) ==
  LET r == resolvers[p]
  IN /\ r.pc = "update_id"
     /\ dir' = update_id(Ctx(dir, inv, NoFail), r.dn, r.tgid).c.dir
     /\ resolvers' = [resolvers EXCEPT ![p] = [r EXCEPT !.pc = "search_by_tgid"]]
     /\ UNCHANGED <<handler, users, people, people_last_update, inv, now, envLeft, last>>

(* conn.modify_s of __update_nickname *)
Step_update_nickname(p) ==
  LET r == resolvers[p]
  IN /\ r.pc = "update_nickname"
     /\ dir' = update_nickname(Ctx(dir, inv, NoFail), r.dn, r.tgnick).c.dir
     /\ resolvers' = [resolvers EXCEPT ![p] = [r EXCEPT !.pc = "return"]]
     /\ UNCHANGED <<handler, users, people, people_last_update, inv, now, envLeft, last>>

(* return User(dn, tgid, ...); bound is the ID the entry carries by then *)
Step_return(p) ==
  LET r == resolvers[p]
  IN /\ r.pc = "return"
     /\ resolvers' = [resolvers EXCEPT ![p] =
          [r EXCEPT !.pc = "done", !.bound = dir[r.dn].tgid]]
     /\ UNCHANGED <<handler, users, people, people_last_update, dir, inv, now, envLeft, last>>

InitRace ==
  /\ users = [x \in {} |-> NoUser]
  /\ people = [x \in {} |-> NoPerson]
  /\ people_last_update = 0
  /\ \E n \in NickOpt, locked \in BOOLEAN, bound \in {NoId, 1} :
       dir = [dn \in DNs |-> IF dn = Alice THEN [Entry(dn, "alice") EXCEPT !.locked = locked]
                               ELSE [Entry(dn, n) EXCEPT !.tgid = bound]]
  /\ \E k \in 0 .. 2 : inv = LegacyInvites(k)
  /\ now = T0
  /\ envLeft = 0
  /\ last = Idle
  /\ \E h \in Nicks : resolvers = [p \in Resolvers |-> Searching(p, h)]
  /\ handler = NoUpdate

NextRace ==
  \/ \E p \in Resolvers : Step_search_by_tgid(p)
  \/ \E p \in Resolvers : Step_get_invite_from_tgid(p)
  \/ \E p \in Resolvers : Step_search_by_nickname(p)
  \/ \E p \in Resolvers : Step_update_id(p)
  \/ \E p \in Resolvers : Step_update_nickname(p)
  \/ \E p \in Resolvers : Step_return(p)

SpecRace == InitRace /\ [][NextRace]_vars

(* C25, as claimed: with the directory calls of the two searches            *)
(* interleaved, no step changes the ID of an entry that has one, and a      *)
(* search that returns a profile does so while the entry carries its ID.    *)
C25_IdWrittenOnce ==
  [][/\ \A dn \in DNs : dir[dn].tgid # NoId => dir'[dn].tgid = dir[dn].tgid
     /\ \A p \in Resolvers :
          resolvers'[p].pc = "done" /\ resolvers'[p].exc = "none"
          => resolvers'[p].bound = resolvers'[p].tgid]_vars

(* C26: while the only person entry with ID X carries a lock marker, a      *)
(* get for X that finds no cached entry, or finds that entry's cached       *)
(* profile older than 3600 s, fails AccountLocked and leaves no entry for   *)
(* X; and a get for X that returns a profile took it from the cache, at     *)
(* most 3600 s old, and left the cache as it was, so no get sets or         *)
(* advances the refresh time of X's cached profile while the marker is set. *)
C26_LockStaleness ==
  \A X \in IDs, h \in NickOpt, readLen \in ReadLens :
    LET o == Users_get(users, dir, inv, now, X, h, NoFail, readLen)
        e == TheOnly(ById(dir, X))
    IN (Cardinality(ById(dir, X)) = 1 /\ dir[e].locked)
       => /\ (\/ X \notin DOMAIN users
              \/ Age(users[X]) > 3600 /\ users[X].dn = e)
             => o.exc = "AccountLockedError" /\ X \notin DOMAIN o.users
          /\ o.exc = "none"
             => /\ o.path = "hit"
                /\ X \in DOMAIN users
                /\ Age(users[X]) <= 3600
                /\ o.value = users[X]
                /\ o.users = users
          /\ X \in DOMAIN o.users
             => X \in DOMAIN users /\ o.users[X].last_update = users[X].last_update

C26_Witness ==
  /\ last.op = "get" /\ last.exc = "none" /\ last.path = "hit"
  /\ last.tgid \in DOMAIN users
  /\ Age(users[last.tgid]) = 3600
  /\ ById(dir, last.tgid) = {users[last.tgid].dn}
  /\ dir[users[last.tgid].dn].locked

(* C27: a get(id, h) that fails AccountLocked, cold or after the read of a  *)
(* stale entry, has issued no modify of a nickname and leaves every entry's *)
(* nickname and the invites as they were; if it wrote at all it wrote once, *)
(* the ID of the entry found by nickname, and after that write it only      *)
(* searched by ID again, the search whose result had the lock marker.       *)
C27_LockBeforeReconcile ==
  \A id \in IDs, h \in NickOpt, readLen \in ReadLens :
    LET o == Users_get(users, dir, inv, now, id, h, NoFail, readLen)
        n == Len(o.calls)
    IN o.exc = "AccountLockedError"
       => /\ ~HasKind(o.calls, {"modify_nickname", "modify_invite"})
          /\ \A dn \in DNs : o.dir[dn].nick = dir[dn].nick
          /\ o.inv = inv
          /\ Count(o.calls, "modify_id") <= 1
          /\ ~HasKind(o.calls, {"modify_id"}) => o.dir = dir
          /\ HasKind(o.calls, {"modify_id"})
             => /\ n >= 3
                /\ o.calls[n - 2].kind = "search_nickname"
                /\ o.calls[n - 1].kind = "modify_id"
                /\ o.calls[n] = [kind |-> "search_tgid", n |-> 1]
                /\ \E e \in ByNick(dir, h) :
                     o.dir = [dir EXCEPT ![e].tgid = id] /\ dir[e].locked

C27_Witness ==
  /\ last.op = "get" /\ last.exc = "AccountLockedError"
  /\ last.path \in {"miss", "evict"}
  /\ \E e \in DNs : /\ ById(dir, last.tgid) = {e}
                    /\ dir[e].locked
                    /\ dir[e].nick # last.nickname

(* C28: a get(X, None) that runs the resolution protocol when no person     *)
(* entry and no invite has ID X fails AccountNotFoundError after the ID     *)
(* search and the invite lookup, with no nickname search and no modify,     *)
(* directory and cache untouched; and a get issues a nickname search only   *)
(* with a nickname, right after an ID search and an invite lookup that both *)
(* found nothing.                                                           *)
C28_NoHandleNoFallback ==
  /\ \A X \in IDs, readLen \in ReadLens :
       LET o == Users_get(users, dir, inv, now, X, None, NoFail, readLen)
       IN (Cold(o) /\ ById(dir, X) = {} /\ InvitesById(inv, X) = {})
          => /\ o.exc = "AccountNotFoundError"
             /\ Kinds(ColdCalls(o)) = <<"search_tgid", "search_invite_tgid">>
             /\ o.dir = dir /\ o.inv = inv
             /\ X \notin DOMAIN o.users
             /\ o.value = NoUser
  /\ \A X \in IDs, h \in NickOpt, readLen \in ReadLens :
       LET o == Users_get(users, dir, inv, now, X, h, NoFail, readLen)
       IN \A j \in DOMAIN o.calls :
            o.calls[j].kind = "search_nickname"
            => /\ h # None
               /\ j >= 3
               /\ o.calls[j - 2] = [kind |-> "search_tgid", n |-> 0]
               /\ o.calls[j - 1] = [kind |-> "search_invite_tgid", n |-> 0]
               /\ Count(o.calls, "search_nickname") = 1

C28_Witness ==
  /\ last.op = "get" /\ last.exc = "AccountNotFoundError"
  /\ last.nickname = None
  /\ last.kinds = <<"search_tgid", "search_invite_tgid">>
  /\ \E dn \in DNs : dir[dn].present /\ dir[dn].tgid = NoId /\ dir[dn].nick = None
  /\ last.tgid \notin DOMAIN users

(* C29, as claimed: after a successful redeem(code, X, h), while no person  *)
(* entry has ID X and the invite keeps it, every get(X, h') fails           *)
(* AccountNotCompletedError carrying that invite's code.                    *)
C29_RedeemBlocksFallback ==
  \A X \in IDs, h \in NickOpt : \A rec \in InvitesById(inv, X) :
    LET o == Users_get(users, dir, inv, now, X, h, NoFail, 1)
    IN ById(dir, X) = {}
       => o.exc = "AccountNotCompletedError" /\ o.code = inv[rec].code

(* C29, amended: after a successful redeem(code, X, h), while no person     *)
(* entry has ID X and that invite is the only one with ID X, a get(X, h')   *)
(* that runs the resolution protocol fails AccountNotCompletedError         *)
(* carrying the code, issues no nickname search and no modify and binds no  *)
(* person entry to X, also when an entry without ID has nickname h'; when   *)
(* another invite has ID X as well, the get fails DuplicateEntryError, and  *)
(* again nothing is searched by nickname or written.                        *)
C29_RedeemedInviteBlocksFallback ==
  /\ \A code \in Codes, X \in IDs, h \in NickOpt, h2 \in NickOpt :
       LET o1 == Users_update_invite(users, dir, inv, code, X, h, NoFail)
           o2 == Users_get(o1.users, o1.dir, o1.inv, now, X, h2, NoFail, 1)
       IN (o1.exc = "none" /\ ById(dir, X) = {} /\ Cold(o2))
          => /\ InvitesById(o1.inv, X) # {}
             /\ Cardinality(InvitesById(o1.inv, X)) = 1
                => o2.exc = "AccountNotCompletedError" /\ o2.code = code
             /\ Cardinality(InvitesById(o1.inv, X)) > 1 => o2.exc = "DuplicateEntryError"
             /\ ~HasKind(o2.calls, {"search_nickname"} \cup Modifies)
             /\ o2.dir = o1.dir /\ o2.inv = o1.inv
             /\ ById(o2.dir, X) = {}
             /\ X \notin DOMAIN o2.users
  /\ \A X \in IDs, h2 \in NickOpt :
       LET o == Users_get(users, dir, inv, now, X, h2, NoFail, 1)
       IN (ById(dir, X) = {} /\ InvitesById(inv, X) # {} /\ Cold(o))
          => /\ o.exc \in {"AccountNotCompletedError", "DuplicateEntryError"}
             /\ o.exc = "AccountNotCompletedError" <=> Cardinality(InvitesById(inv, X)) = 1
             /\ o.dir = dir

C29_Witness ==
  /\ last.op = "get" /\ last.exc = "AccountNotCompletedError"
  /\ last.nickname # None
  /\ ByNick(dir, last.nickname) # {}
  /\ ById(dir, last.tgid) = {}
  /\ \E rec \in InviteDNs : /\ InvitesById(inv, last.tgid) = {rec}
                            /\ inv[rec].nick # None

(* C30: every cached user is stored under its own Telegram ID; a get that   *)
(* adds a user to the cache or advances a cached user's refresh time found  *)
(* the user's entry without a lock marker; and a user returned by get is,   *)
(* when returned, at most 3600 s old and is the one the cache holds under   *)
(* the ID asked for.                                                        *)
C30_CacheShape ==
  /\ \A k \in DOMAIN users : k \in IDs /\ users[k].tgid = k /\ users[k].dn \in DNs
  /\ \A X \in IDs, h \in NickOpt, readLen \in ReadLens :
       LET o == Users_get(users, dir, inv, now, X, h, NoFail, readLen)
       IN /\ \A k \in DOMAIN o.users :
               (k \notin DOMAIN users \/ o.users[k].last_update # users[k].last_update)
               => /\ k = X /\ o.exc = "none"
                  /\ o.users[k].tgid = k
                  /\ ~dir[o.users[k].dn].locked
                  /\ o.users[k].last_update = now
          /\ o.exc = "none"
             => /\ o.value.tgid = X
                /\ now - o.value.last_update <= 3600
                /\ X \in DOMAIN o.users
                /\ o.users[X] = o.value

C30_Witness ==
  /\ last.op = "get" /\ last.exc = "none" /\ last.path = "miss"
  /\ DOMAIN users = IDs
  /\ \A k \in IDs : users[k].tgid = k
  /\ Age(users[last.tgid]) = 0
  /\ \E k \in IDs : Age(users[k]) >= 3600

C32_BoundedTraffic ==
  \A tgid \in IDs, nickname \in NickOpt, failAt \in {5, 6, NoFail}, readLen \in ReadLens :
    LET o == Users_get(users, dir, inv, now, tgid, nickname, failAt, readLen)
    IN /\ o.exc \in Surface \cup {"KeyError"}
       /\ o.exc = "none" <=> o.value # NoUser
       /\ Len(o.calls) <= 7
       /\ Count(o.calls, "read") <= 1
       /\ Count(o.calls, "search_nickname") <= 1
       /\ Count(o.calls, "modify_id") <= 1
       /\ \A j \in DOMAIN o.calls :
            o.calls[j] = [kind |-> "modify_id", n |-> 1]
            => /\ j < Len(o.calls)
               /\ o.calls[j + 1].kind = "search_tgid"
               /\ \A k \in DOMAIN o.calls :
                    k > j => o.calls[k].kind \notin {"search_nickname", "modify_id", "read"}
               /\ o.calls[j + 1].n # 1
                    => /\ Len(o.calls) = j + 1
                       /\ o.exc # "none"
                       /\ tgid \notin DOMAIN o.users

C32_Witness ==
  /\ last.op = "get" /\ last.exc = "LDAPError" /\ last.path = "miss"
  /\ last.kinds = <<"search_tgid", "search_invite_tgid", "search_nickname",
                    "modify_id", "search_tgid">>
  /\ last.tgid \notin DOMAIN users
  /\ ById(dir, last.tgid) # {}

----------------------------------------------------------------------------
(* The bot: main's loop over the updates and the CommandHandler.  A text is *)
(* its first word and whether it starts with INVITE_LINK; of a link, the    *)
(* word is what follows INVITE_LINK, the invite code.                       *)

Texts ==
  {[link |-> FALSE, word |-> w] : w \in {"/start", "/deletecache", "hello"}}
  \cup {[link |-> TRUE, word |-> c] : c \in Codes}

(* what read_user_from_message leaves: the caches and the directory, *)
(* self.user, what it returned ("raised": it did not return), how the *)
(* redeem went ("none": not attempted), the exception get ended with  *)
Read(u, d, i, user, authorized, redeem, exc, got) ==
  [users |-> u, dir |-> d, inv |-> i, user |-> user, authorized |-> authorized,
   redeem |-> redeem, exc |-> exc, got |-> got]

(* respond_to_invite_link and, in read_user_from_message, what follows it *)
respond_to_invite_link(got, r) ==
  IF r.exc = "none" THEN Read(r.users, r.dir, r.inv, NoUser, "None", "ok", "none", got.exc)
  ELSE IF r.exc = "AccountNotFoundError"
    THEN Read(r.users, r.dir, r.inv, NoUser, "None", r.exc, "none", got.exc)
  ELSE Read(r.users, r.dir, r.inv, NoUser, "raised", r.exc, r.exc, got.exc)

(* the except clauses of read_user_from_message that end in return False *)
Refused == {"LdapConnectionError", "DuplicateEntryError", "AccountLockedError",
            "AccountNotCompletedError"}

(* mutant of Unknown: a locked sender is treated as an unknown one *)
Unknown_or_locked(exc) == exc \in {"AccountNotFoundError", "AccountLockedError"}

(* except AccountNotFoundError in read_user_from_message *)
Unknown(exc) == exc = "AccountNotFoundError"

read_user_from_message(got, tgid, nickname, text) ==
  IF got.exc = "none"
    THEN Read(got.users, got.dir, got.inv, got.value, "True", "none", "none", "none")
  ELSE IF Unknown(got.exc)
    THEN IF text.link
         THEN respond_to_invite_link(got, Users_update_invite(got.users, got.dir, got.inv,
                                                              text.word, tgid, nickname, NoFail))
         ELSE Read(got.users, got.dir, got.inv, NoUser, "False", "none", "none", got.exc)
  ELSE IF got.exc \in Refused
    THEN Read(got.users, got.dir, got.inv, NoUser, "False", "none", "none", got.exc)
  ELSE Read(got.users, got.dir, got.inv, NoUser, "raised", "none", got.exc, got.exc)

(* mutant of CommandHandler_delete_cache: the admin flag is not looked at *)
CommandHandler_delete_cache_anyone(user, u, p, lu) ==
  [users |-> Users_delete_cache(u).users,
   people |-> People_delete_cache(p, lu).people,
   last_update |-> People_delete_cache(p, lu).last_update,
   busted |-> TRUE]

(* CommandHandler.delete_cache *)
CommandHandler_delete_cache(user, u, p, lu) ==
  IF ~user.isadmin
    THEN [users |-> u, people |-> p, last_update |-> lu, busted |-> FALSE]
  ELSE [users |-> Users_delete_cache(u).users,
        people |-> People_delete_cache(p, lu).people,
        last_update |-> People_delete_cache(p, lu).last_update,
        busted |-> TRUE]

(* mutant of Authorized: whatever read_user_from_message returned, go on *)
Authorized_any(read) == read.authorized # "raised"

(* if not authorized: continue *)
Authorized(read) == read.authorized = "True"

(* main, one update with a private message: the command handler that ran   *)
(* ("none": none) and what the update left                                 *)
main_dispatch(read, p, lu, text) ==
  LET ran == IF ~Authorized(read) THEN "none"
             ELSE IF text.word = "/start" THEN "start"
             ELSE IF text.word = "/deletecache" THEN "delete_cache"
             ELSE "unknown"
      left == IF ran = "delete_cache" THEN CommandHandler_delete_cache(read.user, read.users, p, lu)
              ELSE [users |-> read.users, people |-> p, last_update |-> lu, busted |-> FALSE]
  IN [users |-> left.users, people |-> left.people, last_update |-> left.last_update,
      dir |-> read.dir, inv |-> read.inv,
      handler |-> [user |-> read.user, authorized |-> read.authorized, ran |-> ran,
                   redeem |-> read.redeem, exc |-> read.exc, got |-> read.got,
                   busted |-> left.busted]]

main(u, p, lu, d, i, t, tgid, nickname, text, failAt, readLen) ==
  main_dispatch(read_user_from_message(Users_get(u, d, i, t, tgid, nickname, failAt, readLen),
                                       tgid, nickname, text),
                p, lu, text)

Update(tgid, nickname, text, failAt, readLen) ==
  LET m == main(users, people, people_last_update, dir, inv, now, tgid, nickname, text,
                failAt, readLen)
  IN /\ users' = m.users
     /\ people' = m.people
     /\ people_last_update' = m.last_update
     /\ dir' = m.dir
     /\ inv' = m.inv
     /\ handler' = m.handler
     /\ last' = [Idle EXCEPT !.op = "update"]
     /\ UNCHANGED <<now, envLeft, resolvers>>

(* directories the bot may be serving: uid=alice possibly an admin or       *)
(* locked, uid=bob possibly with her nickname, an invite possibly with ID 2 *)
InitBot ==
  /\ users = [x \in {} |-> NoUser]
  /\ people = [x \in {} |-> NoPerson]
  /\ people_last_update = 0
  /\ \E g \in {{}, admin_groups}, lock \in BOOLEAN, n \in NickOpt :
       dir = [dn \in DNs |-> IF dn = Alice
                               THEN [Entry(dn, "alice") EXCEPT !.memberof = g, !.locked = lock]
                               ELSE Entry(dn, n)]
  /\ \E c1 \in Codes, id \in {NoId, 2} :
       inv = [dn \in InviteDNs |-> IF dn = Invite1 THEN Invite(c1, NoId) ELSE Invite("DUP", id)]
  /\ now = T0
  /\ envLeft = 0
  /\ last = Idle
  /\ resolvers = NoResolvers
  /\ handler = NoUpdate

NextBot ==
  \/ \E tgid \in IDs, nickname \in NickOpt, text \in Texts, failAt \in {NoFail, 1} :
        Update(tgid, nickname, text, failAt, 1)
  \/ \E uid \in {"alice"} : PeopleGet(uid, NoFail)

SpecBot == InitBot /\ [][NextBot]_vars

(* C33: for an update with a private message, a command handler runs only   *)
(* when Users.get returned a user for the sender, and self.user is that     *)
(* user; when get failed, whatever the failure, read_user_from_message      *)
(* returns False or None or does not return, no handler runs and self.user  *)
(* is None; update_invite is called only when get failed                    *)
(* AccountNotFoundError (and the text starts with the invite link), and     *)
(* otherwise the update leaves the invites as get left them.                *)
C33_CommandGating ==
  \A tgid \in IDs, nickname \in NickOpt, text \in Texts, failAt \in {NoFail, 1} :
    LET got == Users_get(users, dir, inv, now, tgid, nickname, failAt, 1)
        m == main(users, people, people_last_update, dir, inv, now, tgid, nickname, text,
                  failAt, 1)
    IN /\ m.handler.got = got.exc
       /\ m.handler.ran # "none"
            => /\ got.exc = "none"
               /\ m.handler.authorized = "True"
               /\ m.handler.user = got.value /\ m.handler.user.tgid = tgid
       /\ got.exc # "none"
            => /\ m.handler.authorized \in {"False", "None", "raised"}
               /\ m.handler.ran = "none"
               /\ m.handler.user = NoUser
       /\ m.handler.redeem # "none" => got.exc = "AccountNotFoundError" /\ text.link
       /\ got.exc # "AccountNotFoundError" => m.inv = got.inv /\ m.inv = inv

C33_Witness ==
  /\ last.op = "update"
  /\ handler.got = "AccountNotFoundError"
  /\ handler.redeem = "ok"
  /\ handler.authorized = "None"
  /\ handler.ran = "none"
  /\ \E dn \in InviteDNs : inv[dn].tgid = 1

(* C34: CommandHandler.delete_cache empties the identity cache and the      *)
(* roster and sets the roster's age clock to 0 when the sender's user has   *)
(* the admin flag, and only then: for a user whose flag is false the two    *)
(* caches and the clock are left as they were; and an update with           *)
(* /deletecache leaves both caches empty exactly when get returned a user   *)
(* with the flag, otherwise it leaves the roster and its clock as they      *)
(* were and the identity cache as get left it.                              *)
C34_AdminOnlyBust ==
  /\ \A k \in DOMAIN users :
       LET o == CommandHandler_delete_cache(users[k], users, people, people_last_update)
       IN IF users[k].isadmin
          THEN /\ o.busted
               /\ DOMAIN o.users = {} /\ DOMAIN o.people = {} /\ o.last_update = 0
          ELSE /\ ~o.busted
               /\ o.users = users /\ o.people = people
               /\ o.last_update = people_last_update
  /\ \A tgid \in IDs, nickname \in NickOpt :
       LET got == Users_get(users, dir, inv, now, tgid, nickname, NoFail, 1)
           m == main(users, people, people_last_update, dir, inv, now, tgid, nickname,
                     [link |-> FALSE, word |-> "/deletecache"], NoFail, 1)
       IN IF got.exc = "none" /\ got.value.isadmin
          THEN /\ m.handler.busted
               /\ DOMAIN m.users = {} /\ DOMAIN m.people = {} /\ m.last_update = 0
          ELSE /\ ~m.handler.busted
               /\ m.users = got.users /\ m.people = people
               /\ m.last_update = people_last_update

C34_Witness ==
  /\ last.op = "update"
  /\ handler.ran = "delete_cache" /\ ~handler.busted
  /\ ~handler.user.isadmin
  /\ handler.user.tgid \in DOMAIN users
  /\ DOMAIN people # {} /\ people_last_update # 0

====
